---- MODULE Spec2Model ----
(***************************************************************************)
(* Model of google_compute_engine_oslogin/utils/oslogin_utils.cc:          *)
(* BufferManager, NssCache and the JSON decoders of the OS Login NSS       *)
(* utilities.                                                              *)
(*                                                                         *)
(* Conventions.                                                            *)
(*  - A C string is a sequence of one-character strings; strlen is Len.    *)
(*  - A json_object* is a record [t, b, i, s, a, o]; the NULL pointer and  *)
(*    the JSON literal null are the same value (json-c stores null as      *)
(*    NULL), of type json_type_null.                                       *)
(*  - A 64-bit integer is three limbs [hi, h, l] with value                *)
(*    hi * 2^32 + h * 2^16 + l (hi signed, h and l in 0..65535), so that   *)
(*    the (uint32_t) and (uint64_t) casts of the source keep their width.  *)
(*  - A response text is [kind, doc]: "empty" (the empty string),          *)
(*    "garbage" (text json_tokener_parse rejects) or "json" (the text      *)
(*    that spells the document doc).                                       *)
(***************************************************************************)
EXTENDS Integers, Sequences, FiniteSets, TLC

VARIABLES
    op,        \* the operation that ran last ("init" before any)
    response,  \* the response text handed to the last decoder call
    cap,       \* the capacity of the caller's buffer region at the last call
    prior,     \* the caller's struct passwd before the last call
    errno0,    \* *errnop before the last call
    buf,       \* the BufferManager: buf_, buflen_, the strings written, aborted
    result,    \* the caller's struct passwd
    errnop,    \* *errnop
    ret,       \* the value the last call returned
    cache,     \* the NssCache of the enumeration session
    dir,       \* the directory being enumerated: its pages, by page token
    returned,  \* the records enumeration has returned so far
    calls,     \* the number of enumeration calls made
    arg,       \* the other argument of the last call: AppendString's value,
               \* Reserve's bytes, the clock ParseJsonToSshKeys read
    out,       \* what the last call handed back besides ret: *buffer of
               \* AppendString, Reserve's pointer, the list of keys
    http       \* the HttpGet call: its position, its locals, the caller's
               \* *response and *http_code, and the requests it has sent

vars == <<op, response, cap, prior, errno0, buf, result, errnop, ret,
          cache, dir, returned, calls, arg, out, http>>

session == <<cache, dir, returned, calls, http>>

----------------------------------------------------------------------------
(* Maximum number of retries for HTTP requests. *)
kMaxRetries == 1

(* errno.h *)
ENOENT == 2
EINVAL == 22
ERANGE == 34

(* Bounds of the model. *)
MaxCap == 24
CacheSize == 2
MaxCalls == 6
MaxBuf == 5
MaxLen == 2
MaxRegions == 4

----------------------------------------------------------------------------
(* Fixed-width integers. *)

Limb == 65536

I64(hi, h, l) == [hi |-> hi, h |-> h, l |-> l]

I64Small(n) == I64(0, 0, n)

I64Neg(v) ==
    LET l2 == (Limb - v.l) % Limb
        b1 == IF v.l > 0 THEN 1 ELSE 0
        h2 == (2 * Limb - v.h - b1) % Limb
        b2 == IF v.h + b1 > 0 THEN 1 ELSE 0
    IN  I64(0 - v.hi - b2, h2, l2)

(* (uint32_t)v : the low 32 bits. *)
ToUint32(v) == [h |-> v.h, l |-> v.l]

U32(n) == [h |-> 0, l |-> n]

U32Less(u, n) == u.h = 0 /\ u.l < n

(* a < b for the (uint64_t) casts of a and b: a negative hi is a top limb *)
(* of 2^32 + hi.                                                          *)
U64Less(a, b) ==
    IF a.hi # b.hi
    THEN IF (a.hi < 0) = (b.hi < 0) THEN a.hi < b.hi ELSE b.hi < 0
    ELSE IF a.h # b.h THEN a.h < b.h ELSE a.l < b.l

----------------------------------------------------------------------------
(* json-c values. *)

JNull == [t |-> "null", b |-> FALSE, i |-> I64Small(0), s |-> <<>>, a |-> <<>>, o |-> <<>>]
JBool(x) == [JNull EXCEPT !.t = "boolean", !.b = x]
JInt(v) == [JNull EXCEPT !.t = "int", !.i = v]
JDouble(v) == [JNull EXCEPT !.t = "double", !.i = v]
JString(str) == [JNull EXCEPT !.t = "string", !.s = str]
JArray(elems) == [JNull EXCEPT !.t = "array", !.a = elems]
JObject(members) == [JNull EXCEPT !.t = "object", !.o = members]

KV(k, v) == [k |-> k, v |-> v]

json_object_get_type(jso) == jso.t

(* json_object_object_get_ex: TRUE iff jso is an object that has the key. *)
json_object_object_get_ex(jso, key) ==
    /\ jso.t = "object"
    /\ \E n \in 1..Len(jso.o) : jso.o[n].k = key

(* The value json_object_object_get_ex stores: the member's, NULL if none. *)
json_object_object_get(jso, key) ==
    IF json_object_object_get_ex(jso, key)
    THEN jso.o[CHOOSE n \in 1..Len(jso.o) : jso.o[n].k = key].v
    ELSE JNull

json_object_array_get_idx(jso, idx) ==
    IF jso.t = "array" /\ idx < Len(jso.a) THEN jso.a[idx + 1] ELSE JNull

json_object_array_length(jso) == Len(jso.a)

DigitVal == ("0" :> 0) @@ ("1" :> 1) @@ ("2" :> 2) @@ ("3" :> 3) @@ ("4" :> 4)
            @@ ("5" :> 5) @@ ("6" :> 6) @@ ("7" :> 7) @@ ("8" :> 8) @@ ("9" :> 9)

MulAdd10(v, d) ==
    LET x == v.l * 10 + d
        y == v.h * 10 + (x \div Limb)
    IN  I64(v.hi * 10 + (y \div Limb), y % Limb, x % Limb)

RECURSIVE DigitsValue(_, _, _)
DigitsValue(str, n, acc) ==
    IF n > Len(str) \/ str[n] \notin DOMAIN DigitVal
    THEN acc
    ELSE DigitsValue(str, n + 1, MulAdd10(acc, DigitVal[str[n]]))

(* json_parse_int64: an optional sign, then the leading decimal digits;   *)
(* text with no leading number converts to 0.                              *)
json_parse_int64(str) ==
    IF Len(str) > 0 /\ str[1] = "-"
    THEN I64Neg(DigitsValue(str, 2, I64Small(0)))
    ELSE DigitsValue(str, 1, I64Small(0))

json_object_get_int64(jso) ==
    CASE jso.t = "int" -> jso.i
      [] jso.t = "double" -> jso.i
      [] jso.t = "boolean" -> I64Small(IF jso.b THEN 1 ELSE 0)
      [] jso.t = "string" -> json_parse_int64(jso.s)
      [] OTHER -> I64Small(0)

json_object_get_boolean(jso) ==
    CASE jso.t = "boolean" -> jso.b
      [] jso.t = "int" -> jso.i # I64Small(0)
      [] jso.t = "double" -> jso.i # I64Small(0)
      [] jso.t = "string" -> Len(jso.s) # 0
      [] OTHER -> FALSE

(* val_type == json_type_int || val_type == json_type_string *)
IsIntOrString(val) == val.t = "int" \/ val.t = "string"

(* Response texts. *)
EmptyText == [kind |-> "empty", doc |-> JNull]
GarbageText == [kind |-> "garbage", doc |-> JNull]
JsonText(doc) == [kind |-> "json", doc |-> doc]

json_tokener_parse(text) == IF text.kind = "json" THEN text.doc ELSE JNull

json_object_to_json_string_ext(jso) == JsonText(jso)

----------------------------------------------------------------------------
(* BufferManager *)

(* A pointer is an offset into the caller's region; a string outside the  *)
(* region (a literal, or whatever the caller's record held) has p = -1.   *)
CStr(p, str) == [p |-> p, s |-> str]
Literal(str) == CStr(-1, str)

BufferManager(buflen) ==
    [buf_ |-> 0, buflen_ |-> buflen, mem |-> <<>>, aborted |-> FALSE]

CheckSpaceAvailable_OffByOne(b, bytes_to_write) == ~(bytes_to_write >= b.buflen_)

CheckSpaceAvailable(b, bytes_to_write) == ~(bytes_to_write > b.buflen_)

(* A region handed out: n bytes at p, holding the string s once written. *)
Region(p, n, str) == [p |-> p, n |-> n, s |-> str]

Reserve_Unchecked(b, bytes) ==
    [b |-> [b EXCEPT !.buf_ = b.buf_ + bytes, !.buflen_ = b.buflen_ - bytes,
                     !.mem = Append(@, Region(b.buf_, bytes, <<>>))],
     result |-> b.buf_]

(* Reserve: [b, result]; abort() leaves buf_ and buflen_ as they were. *)
Reserve(b, bytes) ==
    IF b.buflen_ < bytes
    THEN [b |-> [b EXCEPT !.aborted = TRUE], result |-> -1]
    ELSE [b |-> [b EXCEPT !.buf_ = b.buf_ + bytes, !.buflen_ = b.buflen_ - bytes,
                          !.mem = Append(@, Region(b.buf_, bytes, <<>>))],
          result |-> b.buf_]

(* AppendString: [ok, b, buffer, errnop]; buffer is *buffer after the call, *)
(* old when the call fails.                                                *)
AppendString(b, value, old, err) ==
    LET bytes_to_write == Len(value) + 1 IN
    IF ~CheckSpaceAvailable(b, bytes_to_write)
    THEN [ok |-> FALSE, b |-> b, buffer |-> old, errnop |-> ERANGE]
    ELSE LET r == Reserve(b, bytes_to_write) IN
         [ok |-> ~r.b.aborted,
          b |-> IF r.b.aborted THEN r.b
                ELSE [r.b EXCEPT !.mem[Len(r.b.mem)].s = value],
          buffer |-> IF r.b.aborted THEN old ELSE CStr(r.result, value),
          errnop |-> err]

----------------------------------------------------------------------------
(* ValidatePasswd and ParseJsonToPasswd *)

HomePrefix == <<"/", "h", "o", "m", "e", "/">>
DefaultShell == <<"/", "b", "i", "n", "/", "b", "a", "s", "h">>

(* A call in progress: st.done says the function has returned st.ret. *)
Returned(st, value) == [st EXCEPT !.done = TRUE, !.ret = value]
Fail(st, err) == [st EXCEPT !.done = TRUE, !.ret = FALSE, !.errnop = err]

(* The call after an AppendString into the field `field` of st.result  *)
(* gave r: a failed AppendString makes the caller return false.         *)
Appended(st, field, r) ==
    [st EXCEPT !.b = r.b,
               !.result = [@ EXCEPT ![field] = r.buffer],
               !.errnop = r.errnop,
               !.done = ~r.ok,
               !.ret = r.ok]

(* if (!buf->AppendString(value, &result->field, errnop)) return false; *)
AppendField(st, field, value) ==
    Appended(st, field, AppendString(st.b, value, st.result[field], st.errnop))

(* ValidatePasswd from the home directory on (lines 213-234); each step *)
(* is skipped once an earlier one has returned.                          *)
DefaultHomeDir(st) ==
    IF ~st.done /\ Len(st.result.pw_dir.s) = 0
    THEN AppendField(st, "pw_dir", HomePrefix \o st.result.pw_name.s)
    ELSE st

DefaultLoginShell(st) ==
    IF ~st.done /\ Len(st.result.pw_shell.s) = 0
    THEN AppendField(st, "pw_shell", DefaultShell)
    ELSE st

ClearGecos_Skipped(st) == st

ClearGecos(st) == IF st.done THEN st ELSE AppendField(st, "pw_gecos", <<>>)

ClearPasswd(st) == IF st.done THEN st ELSE AppendField(st, "pw_passwd", <<>>)

ReturnTrue(st) == IF st.done THEN st ELSE Returned(st, TRUE)

CompletePasswd(st) ==
    ReturnTrue(ClearPasswd(ClearGecos(DefaultLoginShell(DefaultHomeDir(st)))))

ValidatePasswd_NoGidCheck(st) ==
    IF U32Less(st.result.pw_uid, 1000) THEN Fail(st, EINVAL)
    ELSE IF Len(st.result.pw_name.s) = 0 THEN Fail(st, EINVAL)
    ELSE CompletePasswd(st)

ValidatePasswd(st) ==
    IF U32Less(st.result.pw_uid, 1000) THEN Fail(st, EINVAL)
    ELSE IF st.result.pw_gid = U32(0) THEN Fail(st, EINVAL)
    ELSE IF Len(st.result.pw_name.s) = 0 THEN Fail(st, EINVAL)
    ELSE CompletePasswd(st)

(* The body of the json_object_object_foreach loop for one key/value pair. *)
PasswdField(st, key, val) ==
    CASE key = "uid" ->
           IF IsIntOrString(val)
           THEN LET uid == ToUint32(json_object_get_int64(val))
                    s1 == [st EXCEPT !.result.pw_uid = uid]
                IN  IF uid = U32(0) THEN Fail(s1, EINVAL) ELSE s1
           ELSE Fail(st, EINVAL)
      [] key = "gid" ->
           IF IsIntOrString(val)
           THEN LET gid == ToUint32(json_object_get_int64(val)) IN
                [st EXCEPT !.result.pw_gid =
                               IF gid = U32(0) THEN st.result.pw_uid ELSE gid]
           ELSE Fail(st, EINVAL)
      [] key = "username" ->
           IF val.t # "string" THEN Fail(st, EINVAL)
           ELSE AppendField(st, "pw_name", val.s)
      [] key = "homeDirectory" ->
           IF val.t # "string" THEN Fail(st, EINVAL)
           ELSE AppendField(st, "pw_dir", val.s)
      [] key = "shell" ->
           IF val.t # "string" THEN Fail(st, EINVAL)
           ELSE AppendField(st, "pw_shell", val.s)
      [] OTHER -> st

RECURSIVE PasswdForeach(_, _, _)
PasswdForeach(st, members, n) ==
    IF st.done \/ n > Len(members) THEN st
    ELSE PasswdForeach(PasswdField(st, members[n].k, members[n].v), members, n + 1)

(* return ValidatePasswd(result, buf, errnop), unless the loop returned. *)
ValidateUnlessReturned(st) == IF st.done THEN st ELSE ValidatePasswd(st)

(* ParseJsonToPasswd: [done, ret, result, b, errnop]. *)
ParseJsonToPasswd(text, res, b, err) ==
    LET st0 == [done |-> FALSE, ret |-> FALSE, result |-> res, b |-> b, errnop |-> err]
        parsed == json_tokener_parse(text)
        wrapped == json_object_object_get_ex(parsed, "loginProfiles")
        login_profiles == json_object_object_get(parsed, "loginProfiles")
        root == IF wrapped THEN json_object_array_get_idx(login_profiles, 0) ELSE parsed
        posix_accounts == json_object_object_get(root, "posixAccounts")
        account == json_object_array_get_idx(posix_accounts, 0)
        st1 == [st0 EXCEPT !.result.pw_uid = U32(0),
                           !.result.pw_shell = Literal(<<>>),
                           !.result.pw_name = Literal(<<>>),
                           !.result.pw_dir = Literal(<<>>)]
    IN  IF parsed = JNull THEN Fail(st0, ENOENT)
        ELSE IF wrapped /\ json_object_get_type(login_profiles) # "array"
        THEN Returned(st0, FALSE)
        ELSE IF ~json_object_object_get_ex(root, "posixAccounts") THEN Fail(st0, ENOENT)
        ELSE IF json_object_get_type(posix_accounts) # "array" THEN Returned(st0, FALSE)
        ELSE IF json_object_get_type(account) # "object" THEN Returned(st1, FALSE)
        ELSE ValidateUnlessReturned(PasswdForeach(st1, account.o, 1))

----------------------------------------------------------------------------
(* ParseJsonToSshKeys and ParseJsonToAuthorizeResponse *)

Expired_AtExpiry(cur_usec, expiry_usec) == ~U64Less(cur_usec, expiry_usec)

(* expired = cur_usec > expiry_usec, both uint64_t *)
Expired(cur_usec, expiry_usec) == U64Less(expiry_usec, cur_usec)

(* The inner json_object_object_foreach: one field of a key entry; *)
(* e is [key_to_add, expired].                                      *)
SshKeyField(e, key, val, cur_usec) ==
    IF key = "key"
    THEN IF val.t # "string" THEN e ELSE [e EXCEPT !.key_to_add = val.s]
    ELSE IF key = "expirationTimeUsec"
    THEN IF IsIntOrString(val)
         THEN [e EXCEPT !.expired = Expired(cur_usec, json_object_get_int64(val))]
         ELSE e
    ELSE e

RECURSIVE SshKeyFields(_, _, _, _)
SshKeyFields(e, members, n, cur_usec) ==
    IF n > Len(members) THEN e
    ELSE SshKeyFields(SshKeyField(e, members[n].k, members[n].v, cur_usec),
                      members, n + 1, cur_usec)

(* The outer json_object_object_foreach over sshPublicKeys. *)
RECURSIVE SshKeysForeach(_, _, _, _)
SshKeysForeach(res, members, n, cur_usec) ==
    IF n > Len(members) THEN res
    ELSE LET iter == members[n].v
             e == SshKeyFields([key_to_add |-> <<>>, expired |-> FALSE], iter.o, 1, cur_usec)
         IN  IF json_object_get_type(iter) # "object"
             THEN SshKeysForeach(res, members, n + 1, cur_usec)
             ELSE SshKeysForeach(
                      IF Len(e.key_to_add) # 0 /\ ~e.expired
                      THEN Append(res, e.key_to_add) ELSE res,
                      members, n + 1, cur_usec)

(* ParseJsonToSshKeys; cur_usec is what gettimeofday gives, in microseconds. *)
ParseJsonToSshKeys(text, cur_usec) ==
    LET root == json_tokener_parse(text)
        login_profiles == json_object_object_get(root, "loginProfiles")
        first == json_object_array_get_idx(login_profiles, 0)
        ssh_public_keys == json_object_object_get(first, "sshPublicKeys")
    IN  IF root = JNull THEN <<>>
        ELSE IF ~json_object_object_get_ex(root, "loginProfiles") THEN <<>>
        ELSE IF json_object_get_type(login_profiles) # "array" THEN <<>>
        ELSE IF ~json_object_object_get_ex(first, "sshPublicKeys") THEN <<>>
        ELSE IF json_object_get_type(ssh_public_keys) # "object" THEN <<>>
        ELSE SshKeysForeach(<<>>, ssh_public_keys.o, 1, cur_usec)

ParseJsonToAuthorizeResponse(text) ==
    LET root == json_tokener_parse(text) IN
    IF root = JNull THEN FALSE
    ELSE IF ~json_object_object_get_ex(root, "success") THEN FALSE
    ELSE json_object_get_boolean(json_object_object_get(root, "success"))

----------------------------------------------------------------------------
(* NssCache *)

(* The constructor: cache_size empty strings, and index_ is not set, so it *)
(* holds whatever the memory held.                                         *)
NssCache(cache_size, garbage) ==
    [cache_size_ |-> cache_size,
     passwd_cache_ |-> [n \in 1..cache_size |-> EmptyText],
     page_token_ |-> <<>>,
     index_ |-> garbage,
     on_last_page_ |-> FALSE]

Reset(c) ==
    [c EXCEPT !.page_token_ = <<>>, !.index_ = 0, !.passwd_cache_ = <<>>,
              !.on_last_page_ = FALSE]

HasNextPasswd(c) ==
    /\ c.index_ < Len(c.passwd_cache_)
    /\ c.passwd_cache_[c.index_ + 1].kind # "empty"

(* if (success) index_++; return success; with r what ParseJsonToPasswd gave *)
AdvanceOnSuccess(c, r) ==
    [ret |-> r.ret,
     cache |-> IF r.ret THEN [c EXCEPT !.index_ = c.index_ + 1] ELSE c,
     result |-> r.result, b |-> r.b, errnop |-> r.errnop]

(* GetNextPasswd: [ret, cache, result, b, errnop]. *)
GetNextPasswd(c, res, b, err) ==
    IF ~HasNextPasswd(c)
    THEN [ret |-> FALSE, cache |-> c, result |-> res, b |-> b, errnop |-> ENOENT]
    ELSE AdvanceOnSuccess(c, ParseJsonToPasswd(c.passwd_cache_[c.index_ + 1], res, b, err))

(* json_object_get_string of a string value (the only page tokens modelled). *)
json_object_get_string(jso) == jso.s

(* LoadJsonArrayToCache: [ret, cache]. *)
LoadJsonArrayToCache(c, text) ==
    LET c0 == Reset(c)
        root == json_tokener_parse(text)
        c1 == IF json_object_object_get_ex(root, "nextPageToken")
              THEN [c0 EXCEPT !.page_token_ =
                       json_object_get_string(json_object_object_get(root, "nextPageToken"))]
              ELSE [c0 EXCEPT !.page_token_ = <<>>, !.on_last_page_ = TRUE]
        login_profiles == json_object_object_get(root, "loginProfiles")
        arraylen == json_object_array_length(login_profiles)
    IN  IF root = JNull THEN [ret |-> FALSE, cache |-> c0]
        ELSE IF ~json_object_object_get_ex(root, "loginProfiles")
        THEN [ret |-> FALSE, cache |-> [c1 EXCEPT !.page_token_ = <<>>]]
        ELSE IF json_object_get_type(login_profiles) # "array"
        THEN [ret |-> FALSE, cache |-> c1]
        ELSE IF arraylen = 0 \/ arraylen > c.cache_size_
        THEN [ret |-> FALSE, cache |-> [c1 EXCEPT !.page_token_ = <<>>]]
        ELSE [ret |-> TRUE,
              cache |-> [c1 EXCEPT !.passwd_cache_ =
                            [n \in 1..arraylen |->
                               json_object_to_json_string_ext(
                                   json_object_array_get_idx(login_profiles, n - 1))]]]

----------------------------------------------------------------------------
(* The inputs of a lookup: the response of the metadata server, the        *)
(* caller's struct passwd and the capacity of the caller's buffer.         *)

Absent == [JNull EXCEPT !.t = "absent"]

STR_al == <<"a", "l">>
STR_h == <<"/", "h">>
STR_s == <<"/", "s">>

UidVals ==
    { Absent, JInt(I64(-1, 65535, 65535)), JInt(I64Small(0)), JInt(I64Small(500)),
      JInt(I64Small(1000)), JInt(I64Small(2000)), JInt(I64(1, 0, 500)),
      JInt(I64(1, 0, 2000)),
      JString(<<"2", "0", "0", "0">>), JString(<<"5", "0", "0">>),
      JString(<<"x">>), JBool(TRUE) }

GidVals ==
    { Absent, JInt(I64Small(0)), JInt(I64Small(7)), JString(<<"0">>),
      JDouble(I64Small(7)) }

NameVals == { Absent, JString(<<>>), JString(STR_al), JInt(I64Small(1)) }

DirVals == { Absent, JString(<<>>), JString(STR_h), JBool(FALSE) }

ShellVals == { Absent, JString(<<>>), JString(STR_s), JNull }

KeyOrders ==
    { <<"uid", "gid", "username", "homeDirectory", "shell">>,
      <<"gid", "uid", "shell", "homeDirectory", "username">>,
      <<"username", "homeDirectory", "shell", "gid", "uid">> }

(* The members of an account object, in the order the payload lists them. *)
Members(vals, order) ==
    LET present == SelectSeq(order, LAMBDA k : vals[k].t # "absent")
    IN  [n \in 1..Len(present) |-> KV(present[n], vals[present[n]])]

Accounts ==
    { JObject(Members([uid |-> u, gid |-> g, username |-> nm,
                       homeDirectory |-> d, shell |-> sh], order)) :
        u \in UidVals, g \in GidVals, nm \in NameVals, d \in DirVals,
        sh \in ShellVals, order \in KeyOrders }

Direct(account) == JsonText(JObject(<<KV("posixAccounts", JArray(<<account>>))>>))

Wrapped(account) ==
    JsonText(JObject(<<KV("loginProfiles",
        JArray(<<JObject(<<KV("name", JString(STR_al)),
                           KV("posixAccounts", JArray(<<account>>))>>)>>))>>))

GoodAccount ==
    JObject(<<KV("uid", JInt(I64Small(2000))), KV("gid", JInt(I64Small(7))),
              KV("username", JString(STR_al))>>)

(* Responses whose shape stops the decoder before it reaches an account. *)
ShapeResponses ==
    { EmptyText, GarbageText, JsonText(JInt(I64Small(5))), JsonText(JObject(<<>>)),
      JsonText(JObject(<<KV("loginProfiles", JString(STR_al))>>)),
      JsonText(JObject(<<KV("loginProfiles", JArray(<<>>))>>)),
      JsonText(JObject(<<KV("loginProfiles", JArray(<<JObject(<<>>)>>))>>)),
      JsonText(JObject(<<KV("posixAccounts", JString(STR_al))>>)),
      JsonText(JObject(<<KV("posixAccounts", JArray(<<>>))>>)),
      JsonText(JObject(<<KV("posixAccounts", JArray(<<JInt(I64Small(5))>>))>>)),
      Wrapped(GoodAccount) }

PasswdResponses == { Direct(a) : a \in Accounts } \cup ShapeResponses

Stale == Literal(<<"?">>)

PriorRecords ==
    { [pw_name |-> Stale, pw_passwd |-> Stale, pw_uid |-> U32(4242), pw_gid |-> g,
       pw_gecos |-> Stale, pw_dir |-> Stale, pw_shell |-> Stale] :
        g \in { U32(0), U32(7) } }

Caps == { 0, 3, 12, MaxCap }

NoResponse == EmptyText

----------------------------------------------------------------------------
(* A point lookup: one ParseJsonToPasswd call into a fresh BufferManager. *)

(* The caller before any call. *)
NoCall ==
    /\ op = "init"
    /\ response = NoResponse
    /\ cap = 0
    /\ prior \in PriorRecords
    /\ errno0 = 0
    /\ buf = BufferManager(0)
    /\ result = prior
    /\ errnop = 0
    /\ ret = FALSE
    /\ arg = <<>>
    /\ out = <<>>

(* No HttpGet call is in progress. *)
NoHttp == [pc |-> "none"]

NoSession ==
    /\ dir = <<>>
    /\ returned = <<>>
    /\ calls = 0
    /\ http = NoHttp

Init ==
    /\ NoCall
    /\ NoSession
    /\ cache = NssCache(CacheSize, 0)

CallParseJsonToPasswd ==
    /\ op = "init"
    /\ \E text \in PasswdResponses, c \in Caps :
         \E r \in { ParseJsonToPasswd(text, prior, BufferManager(c), errnop) } :
         /\ op' = "ParseJsonToPasswd"
         /\ response' = text
         /\ cap' = c
         /\ errno0' = errnop
         /\ buf' = r.b
         /\ result' = r.result
         /\ errnop' = r.errnop
         /\ ret' = r.ret
    /\ UNCHANGED <<prior, session, arg, out>>

Next == CallParseJsonToPasswd

Spec == Init /\ [][Next]_vars

----------------------------------------------------------------------------
(* The NssCache under any sequence of Reset, LoadJsonArrayToCache and      *)
(* GetNextPasswd calls.                                                    *)

STR_bo == <<"b", "o">>
STR_t == <<"t">>

Profile(account) == JObject(<<KV("posixAccounts", JArray(<<account>>))>>)

ProfileA == Profile(GoodAccount)

ProfileB ==
    Profile(JObject(<<KV("uid", JInt(I64Small(3000))), KV("username", JString(STR_bo)),
                      KV("gid", JInt(I64Small(0)))>>))

(* An entry ValidatePasswd rejects, and one ParseJsonToPasswd cannot decode. *)
ProfileLowUid ==
    Profile(JObject(<<KV("uid", JInt(I64Small(500))), KV("username", JString(STR_bo))>>))

ProfileNoAccounts == JObject(<<KV("name", JString(STR_al))>>)

CacheProfiles == { ProfileA, ProfileLowUid, ProfileNoAccounts }

RECURSIVE SeqsUpTo(_, _)
SeqsUpTo(S, n) ==
    IF n = 0 THEN { <<>> }
    ELSE LET shorter == SeqsUpTo(S, n - 1) IN
         shorter \cup { Append(q, x) : q \in { r \in shorter : Len(r) = n - 1 }, x \in S }

PageTokens == { Absent, JString(<<>>), JString(STR_t) }

(* {"nextPageToken": token, "loginProfiles": listing} *)
Page(token, listing) ==
    JsonText(JObject(
        (IF token.t = "absent" THEN <<>> ELSE <<KV("nextPageToken", token)>>)
        \o (IF listing.t = "absent" THEN <<>> ELSE <<KV("loginProfiles", listing)>>)))

PageResponses ==
    { Page(tok, JArray(l)) : tok \in PageTokens, l \in SeqsUpTo(CacheProfiles, CacheSize + 1) }
    \cup { Page(tok, l) : tok \in PageTokens, l \in { Absent, JString(STR_al), JNull } }
    \cup { EmptyText, GarbageText }

NextCaps == { 3, MaxCap }

CacheInit ==
    /\ NoCall
    /\ NoSession
    /\ \E garbage \in 0..(CacheSize + 1) : cache = NssCache(CacheSize, garbage)

(* Reset and LoadJsonArrayToCache take no buffer and no record: the call  *)
(* leaves no frame behind.                                                 *)
NoFrame ==
    /\ cap' = 0
    /\ errno0' = 0
    /\ buf' = BufferManager(0)
    /\ result' = prior
    /\ errnop' = 0
    /\ UNCHANGED prior

CallReset ==
    /\ op' = "Reset"
    /\ response' = NoResponse
    /\ cache' = Reset(cache)
    /\ ret' = TRUE
    /\ NoFrame
    /\ UNCHANGED <<dir, returned, calls, arg, out, http>>

CallLoadJsonArrayToCache ==
    \E text \in PageResponses :
        \E r \in { LoadJsonArrayToCache(cache, text) } :
        /\ op' = "LoadJsonArrayToCache"
        /\ response' = text
        /\ cache' = r.cache
        /\ ret' = r.ret
        /\ NoFrame
        /\ UNCHANGED <<dir, returned, calls, arg, out, http>>

(* The caller hands GetNextPasswd its record, holding anything, and a     *)
(* fresh BufferManager over its buffer.                                    *)
CallGetNextPasswd ==
    \E c \in NextCaps, p \in PriorRecords :
        \E r \in { GetNextPasswd(cache, p, BufferManager(c), 0) } :
        /\ op' = "GetNextPasswd"
        /\ response' = IF HasNextPasswd(cache) THEN cache.passwd_cache_[cache.index_ + 1]
                       ELSE NoResponse
        /\ cap' = c
        /\ prior' = p
        /\ errno0' = 0
        /\ buf' = r.b
        /\ result' = r.result
        /\ errnop' = r.errnop
        /\ ret' = r.ret
        /\ cache' = r.cache
        /\ UNCHANGED <<dir, returned, calls, arg, out, http>>

CacheNext == CallReset \/ CallLoadJsonArrayToCache \/ CallGetNextPasswd

CacheSpec == CacheInit /\ [][CacheNext]_vars

----------------------------------------------------------------------------
(* Enumeration of a two-page directory: page 1 carries the page token of   *)
(* page 2, page 2 carries none.  enumeration_next loads the next page when *)
(* the cache has no next entry and is not on the last page, then calls     *)
(* GetNextPasswd.                                                          *)

EnumProfiles == { ProfileA, ProfileB, ProfileLowUid, ProfileNoAccounts }

Listings == { l \in SeqsUpTo(EnumProfiles, CacheSize) : Len(l) > 0 }

(* fetch_page: the page a page token names. *)
FetchPage(d, token) == IF token = <<>> THEN d.first ELSE d.second

EnumInit ==
    /\ NoCall
    /\ cache = Reset(NssCache(CacheSize, 0))
    /\ \E l1 \in Listings, l2 \in Listings :
         dir = [first |-> Page(JString(STR_t), JArray(l1)),
                second |-> Page(Absent, JArray(l2))]
    /\ returned = <<>>
    /\ calls = 0
    /\ http = NoHttp

(* enumeration_next when the page load it needed failed: no such record. *)
PageLoadFailed(c) ==
    /\ cache' = c
    /\ buf' = BufferManager(MaxCap)
    /\ result' = prior
    /\ errnop' = ENOENT
    /\ ret' = FALSE
    /\ returned' = returned

(* enumeration_next hands back what GetNextPasswd gave. *)
NextGave(r) ==
    /\ cache' = r.cache
    /\ buf' = r.b
    /\ result' = r.result
    /\ errnop' = r.errnop
    /\ ret' = r.ret
    /\ returned' = IF r.ret THEN Append(returned, r.result) ELSE returned

EnumerationNext ==
    /\ calls < MaxCalls
    /\ \E fetch \in { ~HasNextPasswd(cache) /\ ~cache.on_last_page_ } :
       \E page \in { FetchPage(dir, cache.page_token_) } :
       \E load \in { IF fetch THEN LoadJsonArrayToCache(cache, page)
                      ELSE [ret |-> TRUE, cache |-> cache] } :
           /\ op' = "enumeration_next"
           /\ response' = IF fetch THEN page ELSE response
           /\ cap' = MaxCap
           /\ errno0' = 0
           /\ IF ~load.ret
              THEN PageLoadFailed(load.cache)
              ELSE NextGave(GetNextPasswd(load.cache, prior, BufferManager(MaxCap), 0))
    /\ calls' = calls + 1
    /\ UNCHANGED <<prior, dir, arg, out, http>>

EnumNext == EnumerationNext

EnumSpec == EnumInit /\ [][EnumNext]_vars

----------------------------------------------------------------------------
(* One BufferManager under any sequence of AppendString and Reserve calls. *)

Values == SeqsUpTo({"a"}, MaxLen)

BufferInit ==
    /\ op = "init"
    /\ response = NoResponse
    /\ cap \in 0..MaxBuf
    /\ prior \in PriorRecords
    /\ errno0 = 0
    /\ buf = BufferManager(cap)
    /\ result = prior
    /\ errnop = 0
    /\ ret = FALSE
    /\ arg = <<>>
    /\ out = Stale
    /\ NoSession
    /\ cache = NssCache(CacheSize, 0)

CallAppendString ==
    /\ ~buf.aborted
    /\ Len(buf.mem) < MaxRegions
    /\ \E value \in Values :
         \E r \in { AppendString(buf, value, out, 0) } :
         /\ op' = "AppendString"
         /\ arg' = value
         /\ errno0' = 0
         /\ buf' = r.b
         /\ out' = r.buffer
         /\ errnop' = r.errnop
         /\ ret' = r.ok
    /\ UNCHANGED <<response, cap, prior, result, session>>

CallReserve ==
    /\ ~buf.aborted
    /\ Len(buf.mem) < MaxRegions
    /\ \E bytes \in 0..(MaxLen + 1) :
         \E r \in { Reserve(buf, bytes) } :
         /\ op' = "Reserve"
         /\ arg' = bytes
         /\ buf' = r.b
         /\ out' = CStr(r.result, <<>>)
         /\ ret' = ~r.b.aborted
    /\ UNCHANGED <<response, cap, prior, errno0, result, errnop, session>>

BufferNext == CallAppendString \/ CallReserve

BufferSpec == BufferInit /\ [][BufferNext]_vars

----------------------------------------------------------------------------
(* The decoders that need no buffer: one ParseJsonToSshKeys or             *)
(* ParseJsonToAuthorizeResponse call on a response.                        *)

(* The clock: a small value, and one of the size of a present-day time in *)
(* microseconds (about 1.5 * 10^15).                                       *)
Clocks == { I64(0, 0, 100), I64(350000, 7, 100) }

Before(v) == [v EXCEPT !.l = v.l - 1]
After(v) == [v EXCEPT !.l = v.l + 1]

STR_k1 == <<"k", "1">>
STR_k2 == <<"k", "2">>

KeyVals(str) == { Absent, JString(<<>>), JString(str), JInt(I64Small(1)) }

ExpirationVals(now) ==
    { Absent, JInt(Before(now)), JInt(now), JInt(After(now)),
      JInt(I64(-1, 65535, 65535)), JInt(I64Small(0)),
      JString(<<"9", "9">>), JString(<<"1", "0", "0">>), JString(<<"1", "0", "1">>),
      JString(<<"x">>), JDouble(After(now)), JBool(TRUE) }

KeyOrdersSsh == { <<"key", "expirationTimeUsec">>, <<"expirationTimeUsec", "key">> }

KeyEntries(str, now) ==
    { JObject(Members([key |-> k, expirationTimeUsec |-> x], order)) :
        k \in KeyVals(str), x \in ExpirationVals(now), order \in KeyOrdersSsh }

SecondEntries(now) ==
    { JObject(<<KV("key", JString(STR_k2))>>),
      JObject(<<KV("key", JString(STR_k2)), KV("expirationTimeUsec", JInt(Before(now)))>>),
      JString(STR_k2) }

KeysProfile(keys) ==
    JsonText(JObject(<<KV("loginProfiles",
        JArray(<<JObject(<<KV("name", JString(STR_al)), KV("sshPublicKeys", keys)>>)>>))>>))

SshResponses(now) ==
    { KeysProfile(JObject(<<KV("fp1", e1), KV("fp2", e2)>>)) :
        e1 \in KeyEntries(STR_k1, now), e2 \in SecondEntries(now) }
    \cup { KeysProfile(JArray(<<>>)), KeysProfile(JObject(<<>>)),
           JsonText(JObject(<<KV("loginProfiles", JString(STR_al))>>)),
           JsonText(JObject(<<KV("loginProfiles", JArray(<<>>))>>)),
           JsonText(JObject(<<>>)), GarbageText, EmptyText }

SuccessVals ==
    { JBool(TRUE), JBool(FALSE), JInt(I64Small(0)), JInt(I64Small(1)),
      JInt(I64(-1, 65535, 65535)), JString(<<>>), JString(<<"n", "o">>),
      JDouble(I64Small(0)), JDouble(I64Small(1)), JObject(<<>>),
      JArray(<<JBool(TRUE)>>), JNull }

AuthResponses ==
    { JsonText(JObject(<<KV("success", v)>>)) : v \in SuccessVals }
    \cup { JsonText(JObject(<<KV("name", JString(STR_al)), KV("success", v)>>)) :
             v \in SuccessVals }
    \cup { JsonText(JObject(<<>>)), JsonText(JArray(<<JBool(TRUE)>>)),
           JsonText(JObject(<<KV("name", JBool(TRUE))>>)), GarbageText, EmptyText }

DecodeInit ==
    /\ NoCall
    /\ NoSession
    /\ cache = NssCache(CacheSize, 0)

CallParseJsonToSshKeys ==
    /\ op = "init"
    /\ \E now \in Clocks : \E text \in SshResponses(now) :
         /\ op' = "ParseJsonToSshKeys"
         /\ response' = text
         /\ arg' = now
         /\ out' = ParseJsonToSshKeys(text, now)
         /\ ret' = TRUE
    /\ UNCHANGED <<cap, prior, errno0, buf, result, errnop, session>>

CallParseJsonToAuthorizeResponse ==
    /\ op = "init"
    /\ \E text \in AuthResponses :
         /\ op' = "ParseJsonToAuthorizeResponse"
         /\ response' = text
         /\ ret' = ParseJsonToAuthorizeResponse(text)
    /\ UNCHANGED <<cap, prior, errno0, buf, result, errnop, session, arg, out>>

DecodeNext == CallParseJsonToSshKeys \/ CallParseJsonToAuthorizeResponse

DecodeSpec == DecodeInit /\ [][DecodeNext]_vars

----------------------------------------------------------------------------
(* HttpGet: one call, a step for its entry and a step for each iteration   *)
(* of its do-while loop (one curl_easy_perform).                           *)

CURLE_OK == "CURLE_OK"

(* The CURLcode of a request that failed in transport. *)
TransportErrors == { "CURLE_COULDNT_CONNECT", "CURLE_OPERATION_TIMEDOUT" }

Statuses == { 200, 404, 500, 503 }

Bodies == { <<>>, <<"x">>, <<"y", "z">> }

(* What one curl_easy_perform can give: a completed exchange with its     *)
(* status and body, or a transport failure after part of a body.          *)
Outcomes ==
    { [code |-> CURLE_OK, status |-> st, body |-> b] : st \in Statuses, b \in Bodies }
    \cup { [code |-> c, status |-> 0, body |-> b] :
             c \in TransportErrors, b \in { <<>>, <<"x">> } }

(* OnCurlWrite: the bytes received are written to the stream. *)
OnCurlWrite(os, bytes) == os \o bytes

(* The caller's *response and *http_code before the call. *)
HttpCallers ==
    { [pc |-> "entry", retry_count |-> 0, code |-> "CURLE_FAILED_INIT",
       response_stream |-> <<>>, response |-> r, http_code |-> hc,
       sent |-> <<>>, ret |-> FALSE] :
        r \in { <<>>, <<"o">> }, hc \in { 0, 500 } }

HttpReturn(h, value) == [h EXCEPT !.pc = "done", !.ret = value]

(* Lines 148-162 and, with no curl handle, 181-182. *)
HttpGetEntry(h, response_null, http_code_null, curl, header_list) ==
    IF response_null \/ http_code_null THEN HttpReturn(h, FALSE)
    ELSE IF ~curl THEN HttpReturn([h EXCEPT !.response = h.response_stream], TRUE)
    ELSE IF ~header_list THEN HttpReturn(h, FALSE)
    ELSE [h EXCEPT !.pc = "loop"]

RetryAgain_OffByOne(retry_count, http_code) ==
    retry_count <= kMaxRetries /\ http_code = 500

(* while (retry_count++ < kMaxRetries && *http_code == 500) *)
RetryAgain(retry_count, http_code) ==
    retry_count < kMaxRetries /\ http_code = 500

(* A completed request: the status is stored, the loop goes round again   *)
(* or HttpGet hands the stream over and returns true.                      *)
Completed(h, status) ==
    IF RetryAgain(h.retry_count, status)
    THEN [h EXCEPT !.http_code = status, !.retry_count = h.retry_count + 1]
    ELSE HttpReturn([h EXCEPT !.http_code = status, !.retry_count = h.retry_count + 1,
                              !.response = h.response_stream], TRUE)

(* One iteration of the loop, the request giving o. *)
Performed(h, o) ==
    IF o.code # CURLE_OK THEN HttpReturn(h, FALSE) ELSE Completed(h, o.status)

Requested(h, o) ==
    [h EXCEPT !.response_stream = OnCurlWrite(<<>>, o.body), !.code = o.code,
              !.sent = Append(@, o)]

HttpInit ==
    /\ NoCall
    /\ dir = <<>>
    /\ returned = <<>>
    /\ calls = 0
    /\ cache = NssCache(CacheSize, 0)
    /\ http \in HttpCallers

HttpGetEnter ==
    /\ http.pc = "entry"
    /\ \E response_null, http_code_null, curl, header_list \in BOOLEAN :
         http' = HttpGetEntry(http, response_null, http_code_null, curl, header_list)
    /\ UNCHANGED <<op, response, cap, prior, errno0, buf, result, errnop, ret,
                   cache, dir, returned, calls, arg, out>>

HttpPerform ==
    /\ http.pc = "loop"
    /\ \E o \in Outcomes : http' = Performed(Requested(http, o), o)
    /\ UNCHANGED <<op, response, cap, prior, errno0, buf, result, errnop, ret,
                   cache, dir, returned, calls, arg, out>>

HttpNext == HttpGetEnter \/ HttpPerform

HttpSpec == HttpInit /\ [][HttpNext]_vars

(* HttpGet is sequential code and every curl_easy_perform returns (the    *)
(* request carries CURLOPT_TIMEOUT): a step that can be taken is taken.   *)
HttpFairSpec == HttpSpec /\ WF_vars(HttpNext)

----------------------------------------------------------------------------
(* What a claim says about the payload of the last lookup. *)

(* The first posixAccounts entry of the response, in either shape. *)
PayloadAccount ==
    LET doc == json_tokener_parse(response)
        top == IF json_object_object_get_ex(doc, "loginProfiles")
               THEN json_object_array_get_idx(json_object_object_get(doc, "loginProfiles"), 0)
               ELSE doc
    IN  json_object_array_get_idx(json_object_object_get(top, "posixAccounts"), 0)

HasKey(key) == json_object_object_get_ex(PayloadAccount, key)
Field(key) == json_object_object_get(PayloadAccount, key)

IsNumber(val) ==
    \/ val.t = "int"
    \/ /\ val.t = "string"
       /\ Len(val.s) > 0
       /\ \A n \in 1..Len(val.s) : val.s[n] \in DOMAIN DigitVal

(* The number the payload carries under "uid". *)
PayloadUid == json_object_get_int64(Field("uid"))

(* 1000 <= uid < 2^32 *)
UidInRange ==
    /\ HasKey("uid") /\ IsNumber(Field("uid"))
    /\ PayloadUid.hi = 0
    /\ ~U32Less(ToUint32(PayloadUid), 1000)

(* uid < 1000, uid 0 and uid absent *)
UidBelow1000 ==
    \/ ~HasKey("uid")
    \/ /\ IsNumber(Field("uid"))
       /\ \/ PayloadUid.hi < 0
          \/ PayloadUid.hi = 0 /\ U32Less(ToUint32(PayloadUid), 1000)

NonEmptyString(key) == HasKey(key) /\ Field(key).t = "string" /\ Len(Field(key).s) > 0

TextBytes(key) == IF Field(key).t = "string" THEN Len(Field(key).s) + 1 ELSE 0

(* The bytes a complete record of the payload takes in the caller's region. *)
BytesNeeded ==
    TextBytes("username") + TextBytes("homeDirectory") + TextBytes("shell")
    + (IF NonEmptyString("homeDirectory") THEN 0
       ELSE Len(HomePrefix) + Len(Field("username").s) + 1)
    + (IF NonEmptyString("shell") THEN 0 ELSE Len(DefaultShell) + 1)
    + 2

Looked == op = "ParseJsonToPasswd"

----------------------------------------------------------------------------
(* C1: a payload with uid >= 1000 (within 32 bits), a non-empty username   *)
(* and no gid key, decoded into a buffer that is large enough, succeeds    *)
(* with gid = uid, whatever the caller's record held before.               *)
C1_GidDefaultsToUid ==
    (Looked /\ PayloadAccount.t = "object" /\ UidInRange /\ NonEmptyString("username")
       /\ ~HasKey("gid") /\ cap >= BytesNeeded
       /\ \A k \in {"homeDirectory", "shell"} : HasKey(k) => Field(k).t = "string")
    => (ret /\ result.pw_gid = result.pw_uid)

(* C3: a failed ParseJsonToPasswd leaves the caller's region as it was:    *)
(* free pointer, remaining capacity, and nothing written.                  *)
C3_FailureLeavesBufferUntouched ==
    (Looked /\ ~ret) => (buf.buf_ = 0 /\ buf.buflen_ = cap /\ buf.mem = <<>>)

(* C6: an account entry with uid < 1000 (0 and absent included) fails with *)
(* EINVAL, whatever the other fields, the key order and the capacity.      *)
C6_LowUidIsInvalid ==
    (Looked /\ PayloadAccount.t = "object" /\ UidBelow1000)
    => (~ret /\ errnop = EINVAL)

(* C10: a record returned with success satisfies every account invariant:  *)
(* uid >= 1000, gid # 0, username, home directory and shell non-empty.     *)
AccountInvariant(r) ==
    /\ ~U32Less(r.pw_uid, 1000)
    /\ r.pw_gid # U32(0)
    /\ Len(r.pw_name.s) > 0
    /\ Len(r.pw_dir.s) > 0
    /\ Len(r.pw_shell.s) > 0

C10_SuccessImpliesInvariant ==
    (op \in {"ParseJsonToPasswd", "GetNextPasswd", "enumeration_next"} /\ ret)
    => AccountInvariant(result)

C10_Witness ==
    /\ Looked /\ ret
    /\ ~HasKey("homeDirectory") /\ ~HasKey("shell")
    /\ result.pw_dir.s = HomePrefix \o STR_al
    /\ result.pw_shell.s = DefaultShell

----------------------------------------------------------------------------
(* C2: a GetNextPasswd call that fails on the entry at the cursor (the     *)
(* entry does not decode, or does not validate) still moves the cursor     *)
(* one entry on.                                                           *)
C2_FailureAdvancesCursor ==
    [][(op' = "GetNextPasswd" /\ HasNextPasswd(cache) /\ ~ret'
          /\ errnop' \in {ENOENT, EINVAL})
       => cache'.index_ = cache.index_ + 1]_vars

(* C4: a failed LoadJsonArrayToCache leaves the cache empty: no entries,   *)
(* cursor 0 and no page token, whatever the payload carried.               *)
C4_FailedLoadLeavesCacheEmpty ==
    (op = "LoadJsonArrayToCache" /\ ~ret)
    => (cache.passwd_cache_ = <<>> /\ cache.index_ = 0 /\ cache.page_token_ = <<>>)

----------------------------------------------------------------------------
(* The entries of a page, and the records its valid entries decode to. *)
Entries(page) == json_object_object_get(json_tokener_parse(page), "loginProfiles").a

Decoded(entry) ==
    ParseJsonToPasswd(json_object_to_json_string_ext(entry), prior, BufferManager(MaxCap), 0)

RECURSIVE ValidRecords(_, _)
ValidRecords(entries, n) ==
    IF n > Len(entries) THEN <<>>
    ELSE (IF Decoded(entries[n]).ret THEN <<Decoded(entries[n]).result>> ELSE <<>>)
         \o ValidRecords(entries, n + 1)

Expected == ValidRecords(Entries(dir.first), 1) \o ValidRecords(Entries(dir.second), 1)

TotalEntries == Len(Entries(dir.first)) + Len(Entries(dir.second))

(* C7: enumeration of the two pages returns the valid records of page 1    *)
(* and then of page 2, each once, and from then on reports ENOENT: every   *)
(* call consumes an entry, so the call after the last entry, and each      *)
(* later one, reports the end with all valid records returned.             *)
C7_EnumerationReturnsAllThenEnd ==
    (op = "enumeration_next" /\ calls > TotalEntries)
    => (~ret /\ errnop = ENOENT /\ returned = Expected)

(* The same on the directories all of whose entries are valid. *)
C7_AllValid ==
    Len(Expected) = TotalEntries => C7_EnumerationReturnsAllThenEnd

C7_AllValidWitness ==
    /\ op = "enumeration_next" /\ calls > TotalEntries /\ Len(Expected) = TotalEntries
    /\ TotalEntries = 2 * CacheSize

----------------------------------------------------------------------------
(* C5: AppendString of a value into a region with N bytes left succeeds    *)
(* when Len(value) + 1 <= N, returning the old free pointer and taking     *)
(* exactly Len(value) + 1 bytes; otherwise it fails with ERANGE and leaves *)
(* free pointer and remaining capacity as they were.                       *)
C5_AppendString ==
    [][op' = "AppendString" =>
         LET n == Len(arg') + 1 IN
         IF n <= buf.buflen_
         THEN /\ ret'
              /\ out'.p = buf.buf_
              /\ out'.s = arg'
              /\ buf'.buf_ = buf.buf_ + n
              /\ buf'.buflen_ = buf.buflen_ - n
         ELSE /\ ~ret'
              /\ errnop' = ERANGE
              /\ buf'.buf_ = buf.buf_
              /\ buf'.buflen_ = buf.buflen_]_vars

(* An AppendString that fails one byte short, after one that fitted. *)
C5_Witness ==
    /\ op = "AppendString" /\ ~ret /\ errnop = ERANGE
    /\ buf.buflen_ = Len(arg) /\ buf.buflen_ > 0
    /\ Len(buf.mem) > 0

----------------------------------------------------------------------------
(* What a claim says about the key entries of the last ParseJsonToSshKeys. *)

KeyMap ==
    json_object_object_get(
        json_object_array_get_idx(
            json_object_object_get(json_tokener_parse(response), "loginProfiles"), 0),
        "sshPublicKeys")

(* The object-typed entries of the key map. *)
KeyEntryIndexes == { n \in 1..Len(KeyMap.o) : KeyMap.o[n].v.t = "object" }

EntryKey(n) == json_object_object_get(KeyMap.o[n].v, "key")
EntryExpiration(n) == json_object_object_get(KeyMap.o[n].v, "expirationTimeUsec")
HasExpiration(n) == json_object_object_get_ex(KeyMap.o[n].v, "expirationTimeUsec")

HasCredential(n) == EntryKey(n).t = "string" /\ Len(EntryKey(n).s) > 0

(* Entries carry distinct credentials, so an entry is in the output iff *)
(* its credential is.                                                   *)
Included(n) == \E m \in 1..Len(out) : out[m] = EntryKey(n).s

(* a > b as signed 64-bit numbers *)
I64Greater(a, b) ==
    IF a.hi # b.hi THEN a.hi > b.hi
    ELSE IF a.h # b.h THEN a.h > b.h ELSE a.l > b.l

ListedKeys == op = "ParseJsonToSshKeys" /\ KeyMap.t = "object"

(* C8 as stated: an entry is in the output iff it has a non-empty string   *)
(* key and carries no expiration or one strictly greater than the current  *)
(* time; checked on the entries whose expiration is absent or a number.    *)
C8_IncludedIffStrictlyLater ==
    ListedKeys =>
      \A n \in KeyEntryIndexes :
        (~HasExpiration(n) \/ IsNumber(EntryExpiration(n)))
        => (Included(n) <=>
              /\ HasCredential(n)
              /\ \/ ~HasExpiration(n)
                 \/ I64Greater(json_object_get_int64(EntryExpiration(n)), arg))

(* C8 amended: an entry is in the output iff it has a non-empty string key *)
(* and either carries no expiration of integer or string type, or that     *)
(* expiration, converted as the code converts it and read as an unsigned   *)
(* 64-bit number, is greater than or equal to the current time.            *)
C8_IncludedIffNotEarlier ==
    ListedKeys =>
      \A n \in KeyEntryIndexes :
        Included(n) <=>
          /\ HasCredential(n)
          /\ \/ ~HasExpiration(n)
             \/ ~IsIntOrString(EntryExpiration(n))
             \/ ~U64Less(json_object_get_int64(EntryExpiration(n)), arg)

(* An entry expiring exactly now is listed, next to an expired one that is not. *)
C8_Witness ==
    /\ ListedKeys
    /\ Len(KeyMap.o) = 2
    /\ HasCredential(1) /\ HasExpiration(1) /\ EntryExpiration(1) = JInt(arg)
    /\ HasCredential(2) /\ HasExpiration(2)
    /\ out = <<STR_k1>>

(* C9: ParseJsonToAuthorizeResponse returns true only for a top-level      *)
(* "success" field of boolean type whose value is true, and false when the *)
(* field is absent, the payload unparsable or the value of another type.   *)
C9_TrueOnlyForBooleanTrue ==
    op = "ParseJsonToAuthorizeResponse" =>
      (ret <=> /\ json_object_object_get_ex(json_tokener_parse(response), "success")
               /\ json_object_object_get(json_tokener_parse(response), "success")
                    = JBool(TRUE))

----------------------------------------------------------------------------
(* More of what a claim says about the payload of the last lookup. *)

(* The number the payload carries under "gid". *)
PayloadGid == json_object_get_int64(Field("gid"))

(* uid >= 1000, as the number the payload spells *)
UidAtLeast1000 ==
    /\ HasKey("uid") /\ IsNumber(Field("uid"))
    /\ \/ PayloadUid.hi > 0
       \/ PayloadUid.hi = 0 /\ ~U32Less(ToUint32(PayloadUid), 1000)

GidNonZero ==
    /\ HasKey("gid") /\ IsNumber(Field("gid"))
    /\ PayloadGid.hi = 0 /\ PayloadGid # I64Small(0)

GidZero == HasKey("gid") /\ IsNumber(Field("gid")) /\ PayloadGid = I64Small(0)

(* The optional text fields are strings where the payload has them. *)
TextFieldsAreStrings ==
    \A k \in {"homeDirectory", "shell"} : HasKey(k) => Field(k).t = "string"

(* The value of posixAccounts, in either shape of the response. *)
PayloadAccounts ==
    LET doc == json_tokener_parse(response)
        top == IF json_object_object_get_ex(doc, "loginProfiles")
               THEN json_object_array_get_idx(json_object_object_get(doc, "loginProfiles"), 0)
               ELSE doc
    IN  json_object_object_get(top, "posixAccounts")

(* C11: every failing return of ParseJsonToPasswd leaves *errnop set by    *)
(* the call to ENOENT, EINVAL or ERANGE, never at the value it had before; *)
(* a posixAccounts array with no first element gives ENOENT.               *)
C11_FailureSetsErrno ==
    (Looked /\ ~ret)
    => /\ errnop \in {ENOENT, EINVAL, ERANGE}
       /\ errnop # errno0
       /\ (PayloadAccounts.t = "array" /\ Len(PayloadAccounts.a) = 0) => errnop = ENOENT

----------------------------------------------------------------------------
ExpectedDir ==
    IF NonEmptyString("homeDirectory") THEN Field("homeDirectory").s
    ELSE HomePrefix \o Field("username").s

ExpectedShell ==
    IF NonEmptyString("shell") THEN Field("shell").s ELSE DefaultShell

CompleteAccount ==
    /\ Looked /\ PayloadAccount.t = "object"
    /\ UidAtLeast1000 /\ GidNonZero /\ NonEmptyString("username")

(* C12: a payload with uid >= 1000, a non-zero gid and a non-empty         *)
(* username, decoded into a buffer that is large enough, gives a record    *)
(* whose home directory is the payload's when that is non-empty and        *)
(* "/home/<username>" otherwise, whose shell is the payload's when         *)
(* non-empty and "/bin/bash" otherwise, and whose gecos and password are   *)
(* the empty string; the lookup succeeds when the uid fits 32 bits and the *)
(* text fields are strings.                                                *)
C12_DefaultsCompleted ==
    CompleteAccount
    => /\ (UidInRange /\ TextFieldsAreStrings /\ cap >= BytesNeeded) => ret
       /\ ret => /\ result.pw_dir.s = ExpectedDir
                 /\ result.pw_shell.s = ExpectedShell
                 /\ result.pw_gecos.s = <<>>
                 /\ result.pw_passwd.s = <<>>

(* An empty home directory replaced by the default, next to a shell the *)
(* payload gave.                                                        *)
C12_Witness ==
    /\ CompleteAccount /\ ret
    /\ Field("homeDirectory") = JString(<<>>)
    /\ result.pw_dir.s = HomePrefix \o STR_al
    /\ result.pw_shell.s = STR_s
    /\ result.pw_gecos.s = <<>>

----------------------------------------------------------------------------
(* C13: a payload with uid >= 1000, a non-empty username and a gid key of  *)
(* value zero, decoded into a buffer that is large enough, succeeds with   *)
(* gid = uid, in whichever order the payload lists uid and gid.            *)
C13_ZeroGidBecomesUid ==
    (Looked /\ PayloadAccount.t = "object" /\ UidInRange /\ NonEmptyString("username")
       /\ GidZero /\ TextFieldsAreStrings /\ cap >= BytesNeeded)
    => (ret /\ result.pw_gid = result.pw_uid)

----------------------------------------------------------------------------
OutputFields(r) ==
    <<r.pw_uid, r.pw_gid, r.pw_name.s, r.pw_dir.s, r.pw_shell.s, r.pw_gecos.s,
      r.pw_passwd.s>>

(* The same payload decoded again, into a fresh buffer of the same        *)
(* capacity, with the caller's record holding p.                           *)
DecodedAgain(p) == ParseJsonToPasswd(response, p, BufferManager(cap), errno0)

SameOutcome(r) ==
    /\ r.ret = ret
    /\ r.errnop = errnop
    /\ ret => OutputFields(r.result) = OutputFields(result)

(* C15: decoding the payload of the last lookup again, into a fresh buffer *)
(* of the same capacity and whatever the caller's record holds, gives the  *)
(* same outcome and, on success, the same output fields.                   *)
C15_OutputIsFunctionOfPayload ==
    Looked => \A p \in PriorRecords : SameOutcome(DecodedAgain(p))

----------------------------------------------------------------------------
(* C19: the uid of a record returned with success is the number the        *)
(* payload carries under uid; a uid that is negative or 2^32 or more makes *)
(* the lookup fail, with EINVAL when the buffer is large enough.           *)
C19_UidIsPayloadUid ==
    (Looked /\ PayloadAccount.t = "object" /\ HasKey("uid") /\ IsNumber(Field("uid")))
    => /\ ret => (PayloadUid.hi = 0 /\ result.pw_uid = ToUint32(PayloadUid))
       /\ PayloadUid.hi # 0
          => (~ret /\ (cap >= BytesNeeded => errnop = EINVAL))

----------------------------------------------------------------------------
Loaded == op = "LoadJsonArrayToCache" /\ ret

(* C14: after a successful LoadJsonArrayToCache the cache is on its last   *)
(* page exactly when its page token is the empty string, also when the     *)
(* payload carries a nextPageToken key whose value is empty.               *)
C14_LastPageIffEmptyToken ==
    Loaded => (cache.on_last_page_ <=> cache.page_token_ = <<>>)

(* The entries of the page just loaded, as the cache stores them. *)
StoredPage ==
    [n \in 1..Len(Entries(response)) |-> json_object_to_json_string_ext(Entries(response)[n])]

CursorInBounds ==
    /\ 0 <= cache.index_
    /\ cache.index_ <= Len(cache.passwd_cache_)
    /\ Len(cache.passwd_cache_) <= cache.cache_size_

(* C16: in every state of an NssCache reachable from its construction by   *)
(* Reset, LoadJsonArrayToCache and GetNextPasswd calls,                    *)
(* 0 <= index_ <= number of stored entries <= cache_size_, and after a     *)
(* successful load the stored entries are the entries of the new page, in  *)
(* payload order, with index_ = 0.                                         *)
C16_CursorWithinPage ==
    /\ CursorInBounds
    /\ Loaded => (cache.index_ = 0 /\ cache.passwd_cache_ = StoredPage)

(* The same from the first Reset or LoadJsonArrayToCache on: until then    *)
(* the cache holds the cache_size_ empty strings of its constructor.       *)
C16_OnceReset ==
    cache.passwd_cache_ # NssCache(CacheSize, 0).passwd_cache_ => C16_CursorWithinPage

C16_OnceResetWitness ==
    /\ op = "GetNextPasswd" /\ ret
    /\ cache.index_ = CacheSize /\ Len(cache.passwd_cache_) = CacheSize

----------------------------------------------------------------------------
(* The bytes of the regions handed out so far. *)
RECURSIVE HandedOut(_, _)
HandedOut(mem, n) == IF n > Len(mem) THEN 0 ELSE mem[n].n + HandedOut(mem, n + 1)

RegionAccounting ==
    /\ HandedOut(buf.mem, 1) + buf.buflen_ = cap
    /\ buf.buf_ = HandedOut(buf.mem, 1)
    /\ buf.buflen_ >= 0
    /\ \A i \in 1..Len(buf.mem) :
         /\ 0 <= buf.mem[i].p
         /\ buf.mem[i].p + buf.mem[i].n <= cap
         /\ Len(buf.mem[i].s) < buf.mem[i].n \/ buf.mem[i].s = <<>>
         /\ \A j \in (i + 1)..Len(buf.mem) : buf.mem[i].p + buf.mem[i].n <= buf.mem[j].p
    /\ (op \in {"AppendString", "Reserve"} /\ ret)
       => (Len(buf.mem) > 0 /\ out.p = buf.mem[Len(buf.mem)].p)

ReserveStep ==
    op' = "Reserve"
    => IF arg' > buf.buflen_
       THEN buf'.aborted /\ buf'.buf_ = buf.buf_ /\ buf'.buflen_ = buf.buflen_
            /\ buf'.mem = buf.mem
       ELSE ~buf'.aborted /\ out'.p = buf.buf_
            /\ buf'.buf_ = buf.buf_ + arg' /\ buf'.buflen_ = buf.buflen_ - arg'

(* C17: across any sequence of AppendString and Reserve calls on one       *)
(* BufferManager, the bytes handed out plus buflen_ equal the initial      *)
(* capacity, every region handed out lies inside the caller's region and   *)
(* holds its string with the terminator, no two regions overlap, and a     *)
(* Reserve of more than buflen_ bytes aborts leaving buf_ and buflen_ as   *)
(* they were, while any other Reserve hands out the old buf_.              *)
C17_RegionsCarvedExactly == [](RegionAccounting) /\ [][ReserveStep]_vars

(* An abort with capacity left, after regions were handed out. *)
C17_Witness ==
    /\ op = "Reserve" /\ buf.aborted
    /\ buf.buflen_ > 0 /\ arg = buf.buflen_ + 1
    /\ Len(buf.mem) >= 2 /\ buf.mem[1].s # <<>>

----------------------------------------------------------------------------
ServerError(o) == o.code = CURLE_OK /\ o.status = 500

HttpDone == http.pc = "done"

LastSent == http.sent[Len(http.sent)]

RetriesOnce ==
    /\ Len(http.sent) <= 2
    /\ Len(http.sent) = 2 => ServerError(http.sent[1])
    /\ (HttpDone /\ Len(http.sent) = 1) => ~ServerError(http.sent[1])
    /\ \A n \in 1..Len(http.sent) :
         http.sent[n].code # CURLE_OK => (n = Len(http.sent) /\ HttpDone /\ ~http.ret)
    /\ (HttpDone /\ Len(http.sent) > 0 /\ LastSent.code = CURLE_OK)
       => /\ http.ret
          /\ http.response = LastSent.body
          /\ http.http_code = LastSent.status

(* C18: HttpGet ends, having sent at most two requests; it sends a second  *)
(* request exactly when the first completed with status 500; a request     *)
(* that fails in transport is its last and makes it return false; and      *)
(* otherwise it returns true with *response the body and *http_code the    *)
(* status of the last request alone.                                       *)
C18_RetriesOnceOnServerError == [](RetriesOnce) /\ <>(HttpDone)

(* Two requests: a 500 with a body, then a 500 again with another body,   *)
(* which is what the caller gets.                                          *)
C18_Witness ==
    /\ HttpDone /\ http.ret
    /\ Len(http.sent) = 2
    /\ http.sent[1].body = <<"x">> /\ ServerError(http.sent[2])
    /\ http.response = <<"y", "z">> /\ http.http_code = 500

====
